---- MODULE Spec2Model ----
(***************************************************************************)
(* DS1307_startlib: register codec of the DS1307 real-time clock and the   *)
(* bounds mapping into its general-purpose RAM, as written in              *)
(* src/DS1307_startlib.ino.                                                *)
(***************************************************************************)
EXTENDS Integers, Sequences, FiniteSets, TLC

(* ---------------- byte arithmetic of the target (8-bit byte) ----------- *)

ByteMod == 256

Byte == 0 .. (ByteMod - 1)

ToByte(n) == n % ByteMod

RECURSIVE BitAnd(_, _)
BitAnd(a, b) ==
    IF a = 0 \/ b = 0 THEN 0
    ELSE (a % 2) * (b % 2) + 2 * BitAnd(a \div 2, b \div 2)

RECURSIVE BitOr(_, _)
BitOr(a, b) ==
    IF a = 0 THEN b
    ELSE IF b = 0 THEN a
    ELSE ((a % 2) + (b % 2) - (a % 2) * (b % 2)) + 2 * BitOr(a \div 2, b \div 2)

RECURSIVE Pow2(_)
Pow2(n) == IF n = 0 THEN 1 ELSE 2 * Pow2(n - 1)

Shl(a, n) == a * Pow2(n)

Shr(a, n) == a \div Pow2(n)

BoolToInt(b) == IF b THEN 1 ELSE 0

(* ---------------- constants of the source ------------------------------ *)

CLOCK_ADDR == 104
SEC_ADDR == 0
MIN_ADDR == 1
HOUR_ADDR == 2
DAY_ADDR == 3
DATE_ADDR == 4
MONTH_ADDR == 5
YEAR_ADDR == 6
RTC_RAM_LOWER == 8
RTC_RAM_UPPER == 63

AM == 0
PM == 1
NONE == 2

MONDAY == 1
TUESDAY == 2
WEDNESDAY == 3
THURSDAY == 4
FRIDAY == 5
SATURDAY == 6
SUNDAY == 7

getSafeRamAddr(addr) == RTC_RAM_LOWER + (addr % 57)

\* A clamp that forgets the upper boundary.
clampLowerOnly(val, minVal, maxVal) == IF val < minVal THEN minVal ELSE val

clamp(val, minVal, maxVal) ==
    IF val < minVal THEN minVal ELSE IF val > maxVal THEN maxVal ELSE val

(* byte cvtDec2Bcd(byte num): the int expression is narrowed to a byte *)
cvtDec2Bcd(num) ==
    LET ones == num % 10
        tens == num \div 10
    IN  ToByte(BitOr(Shl(tens, 4), ones))

(* ---------------- program state ---------------------------------------- *)

VARIABLES
    op,           \* the handler that ran last ("none" before the first call)
    call,         \* the by-value arguments of the last handler (initAddr, data)
    confTime,     \* static Time confTime: the argument of configureTime
    currentTime,  \* static Time currentTime: the out-parameter of readTime
    confDate,     \* static Date confDate: the argument of configureDate
    currentDate,  \* static Date currentDate: the out-parameter of readDate
    rtc,          \* timekeeping registers 0x00..0x06 of the peripheral
    bus,          \* the Wire calls the last handler made, in order
    ret,          \* what the last handler returned to its caller
    serial        \* what the last handler printed on Serial

vars == <<op, call, confTime, currentTime, confDate, currentDate, rtc, bus, ret, serial>>

(* ---------------- the Wire transport, as the handlers use it ----------- *)

\* Largest status Wire.endTransmission reports in the model; 0 is success.
MaxStatus == 2

Statuses == 0 .. MaxStatus

WireBegin(dev) == [call |-> "beginTransmission", arg |-> dev, result |-> 0]

WireWrite(b) == [call |-> "write", arg |-> ToByte(b), result |-> 0]

WireEnd(stop, status) ==
    [call |-> "endTransmission", arg |-> BoolToInt(stop), result |-> status]

WireRequest(count, avail) == [call |-> "requestFrom", arg |-> count, result |-> avail]

WireRead(b) == [call |-> "read", arg |-> 0, result |-> b]

TimeRegs == SEC_ADDR .. YEAR_ADDR

\* An acknowledged write transaction <<address, data...>> stores the data in
\* successive registers, starting at the addressed one.
StoreRegs(regs, addr, data) ==
    [r \in TimeRegs |->
        IF r >= addr /\ r < addr + Len(data) THEN data[r - addr + 1] ELSE regs[r]]

\* The first n registers from addr on, as the bytes a read transaction yields.
FetchRegs(regs, addr, n) == [k \in 1 .. n |-> regs[addr + k - 1]]

NoArgs == [initAddr |-> 0, data |-> 0]

VoidRet == [kind |-> "void", val |-> 0]

BoolRet(b) == [kind |-> "bool", val |-> BoolToInt(b)]

ByteRet(b) == [kind |-> "byte", val |-> b]

(* ---------------- Time Register Codec ---------------------------------- *)

SecondsRegister(t) ==
    LET ch == ToByte(Shl(BoolToInt(t.disableOsc), 7))
    IN  ToByte(BitOr(ch, cvtDec2Bcd(clamp(t.second, 0, 59))))

MinutesRegister(t) == cvtDec2Bcd(clamp(t.minut, 0, 59))

\* An hours register with the PM flag shifted to bit 6 instead of bit 5.
HoursRegisterPmBit6(t) ==
    IF t.is12Hour
    THEN BitOr(BitOr(ToByte(Shl(1, 6)), ToByte(Shl(t.meridianIndicator, 6))),
               cvtDec2Bcd(clamp(t.hour, 1, 12)))
    ELSE cvtDec2Bcd(clamp(t.hour, 0, 23))

HoursRegister(t) ==
    IF t.is12Hour
    THEN LET is12h == ToByte(Shl(BoolToInt(t.is12Hour), 6))
             amPm  == ToByte(Shl(t.meridianIndicator, 5))
             times == cvtDec2Bcd(clamp(t.hour, 1, 12))
         IN  BitOr(BitOr(is12h, amPm), times)
    ELSE LET is12h == ToByte(Shl(BoolToInt(t.is12Hour), 6))
             times == cvtDec2Bcd(clamp(t.hour, 0, 23))
         IN  BitOr(is12h, times)

TimeBytes(t) == <<SecondsRegister(t), MinutesRegister(t), HoursRegister(t)>>

\* byte tens = (val >> 4) & 0x07, of the seconds and minutes registers
SecMinTens(val) == BitAnd(Shr(val, 4), 7)

\* A 12-hour tens digit taken with the 3-bit mask of the other registers.
HourTen12Wide(val) == BitAnd(Shr(val, 4), 7)

\* byte hour_ten = (val >> 4) & 0x01, of the hours register in 12-hour mode
HourTen12(val) == BitAnd(Shr(val, 4), 1)

\* byte hour_ten = (val >> 4) & 0x03, of the hours register in 24-hour mode
HourTen24(val) == BitAnd(Shr(val, 4), 3)

\* One pass of readTime's while loop: byte number i (from 0) is val.
ReadTimeByte(timeOut, i, val) ==
    IF i < 2
    THEN LET tens  == SecMinTens(val)
             units == BitAnd(val, 15)
             res   == tens * 10 + units
         IN  IF i = 0
             THEN [timeOut EXCEPT !.disableOsc = (BitAnd(Shr(val, 4), 8) # 0),
                                  !.second = ToByte(res)]
             ELSE [timeOut EXCEPT !.minut = ToByte(res)]
    ELSE IF i = 2
    THEN LET is12Hour == (BitAnd(val, Shl(1, 6)) # 0)
         IN  IF is12Hour
             THEN LET isPM      == (BitAnd(val, Shl(1, 5)) # 0)
                      hour_ten  == HourTen12(val)
                      hour_unit == BitAnd(val, 15)
                  IN  [timeOut EXCEPT !.is12Hour = is12Hour,
                                      !.meridianIndicator = IF isPM THEN PM ELSE AM,
                                      !.hour = ToByte(hour_ten * 10 + hour_unit)]
             ELSE LET hour_ten  == HourTen24(val)
                      hour_unit == BitAnd(val, 15)
                  IN  [timeOut EXCEPT !.is12Hour = is12Hour,
                                      !.meridianIndicator = NONE,
                                      !.hour = ToByte(hour_ten * 10 + hour_unit)]
    ELSE timeOut

RECURSIVE ReadTimeLoop(_, _, _)
ReadTimeLoop(timeOut, rx, i) ==
    IF i >= Len(rx) THEN timeOut
    ELSE ReadTimeLoop(ReadTimeByte(timeOut, i, rx[i + 1]), rx, i + 1)

RECURSIVE ReadEvents(_, _)
ReadEvents(rx, k) ==
    IF k > Len(rx) THEN <<>> ELSE <<WireRead(rx[k])>> \o ReadEvents(rx, k + 1)

\* void configureTime(Time* t)
configureTime(t, status) ==
    /\ confTime' = t
    /\ bus' = <<WireBegin(CLOCK_ADDR), WireWrite(SEC_ADDR),
                WireWrite(SecondsRegister(t)), WireWrite(MinutesRegister(t)),
                WireWrite(HoursRegister(t)), WireEnd(TRUE, status)>>
    /\ rtc' = IF status = 0 THEN StoreRegs(rtc, SEC_ADDR, TimeBytes(t)) ELSE rtc
    /\ serial' = IF status = 0 THEN "The hour was configured succesfully" ELSE ""
    /\ ret' = VoidRet
    /\ op' = "configureTime"
    /\ call' = NoArgs
    /\ UNCHANGED <<currentTime, confDate, currentDate>>

\* void readTime(Time* timeOut)
readTime(res, avail) ==
    LET rx == FetchRegs(rtc, SEC_ADDR, avail)
        addressing == <<WireBegin(CLOCK_ADDR), WireWrite(SEC_ADDR), WireEnd(FALSE, res)>>
    IN  /\ IF res # 0
           THEN /\ bus' = addressing
                /\ UNCHANGED currentTime
           ELSE /\ bus' = addressing \o <<WireRequest(3, avail)>> \o ReadEvents(rx, 1)
                /\ currentTime' = ReadTimeLoop(currentTime, rx, 0)
        /\ ret' = VoidRet
        /\ serial' = ""
        /\ op' = "readTime"
        /\ call' = NoArgs
        /\ UNCHANGED <<confTime, confDate, currentDate, rtc>>

(* ---------------- Date Register Codec ---------------------------------- *)

DayRegister(d) == cvtDec2Bcd(clamp(d.dow, 1, 7))

DateRegister(d) == cvtDec2Bcd(clamp(d.date, 1, 31))

MonthRegister(d) == cvtDec2Bcd(clamp(d.month, 1, 12))

YearRegister(d) == cvtDec2Bcd(clamp(d.year, 0, 99))

DateBytes(d) == <<DayRegister(d), DateRegister(d), MonthRegister(d), YearRegister(d)>>

\* A day-of-week decode without the initial value: the masked bits as they are.
DecodeDowNoDefault(val) == BitAnd(val, 7)

\* Dow dow_ = MONDAY; switch (val & 0x07) { case 1 .. case 7 }
DecodeDow(val) ==
    LET sel == BitAnd(val, 7)
    IN  CASE sel = 1 -> MONDAY
          [] sel = 2 -> TUESDAY
          [] sel = 3 -> WEDNESDAY
          [] sel = 4 -> THURSDAY
          [] sel = 5 -> FRIDAY
          [] sel = 6 -> SATURDAY
          [] sel = 7 -> SUNDAY
          [] OTHER   -> MONDAY

\* A date tens digit taken with the 1-bit mask of the month register.
DateTensNarrow(val) == BitAnd(Shr(val, 4), 1)

\* byte tens = (val >> 4) & 0x03, of the date register
DateTens(val) == BitAnd(Shr(val, 4), 3)

\* byte tens = (val >> 4) & 0x01, of the month register
MonthTens(val) == BitAnd(Shr(val, 4), 1)

\* byte tens = (val >> 4) & 0x0F, of the year register
YearTens(val) == BitAnd(Shr(val, 4), 15)

\* One pass of readDate's while loop: byte number i (from 0) is val.
ReadDateByte(dateOut, i, val) ==
    CASE i = 0 -> [dateOut EXCEPT !.dow = DecodeDow(val)]
      [] i = 1 -> [dateOut EXCEPT !.date = ToByte(DateTens(val) * 10 + BitAnd(val, 15))]
      [] i = 2 -> [dateOut EXCEPT !.month = ToByte(MonthTens(val) * 10 + BitAnd(val, 15))]
      [] i = 3 -> [dateOut EXCEPT !.year = ToByte(YearTens(val) * 10 + BitAnd(val, 15))]
      [] OTHER -> dateOut

RECURSIVE ReadDateLoop(_, _, _)
ReadDateLoop(dateOut, rx, i) ==
    IF i >= Len(rx) THEN dateOut
    ELSE ReadDateLoop(ReadDateByte(dateOut, i, rx[i + 1]), rx, i + 1)

\* void configureDate(Date* d)
configureDate(d, status) ==
    /\ confDate' = d
    /\ bus' = <<WireBegin(CLOCK_ADDR), WireWrite(DAY_ADDR),
                WireWrite(DayRegister(d)), WireWrite(DateRegister(d)),
                WireWrite(MonthRegister(d)), WireWrite(YearRegister(d)),
                WireEnd(TRUE, status)>>
    /\ rtc' = IF status = 0 THEN StoreRegs(rtc, DAY_ADDR, DateBytes(d)) ELSE rtc
    /\ serial' = IF status # 0 THEN "Date configured correctly" ELSE ""
    /\ ret' = VoidRet
    /\ op' = "configureDate"
    /\ call' = NoArgs
    /\ UNCHANGED <<confTime, currentTime, currentDate>>

\* void readDate(Date* dateOut)
readDate(res, avail) ==
    LET rx == FetchRegs(rtc, DAY_ADDR, avail)
        addressing == <<WireBegin(CLOCK_ADDR), WireWrite(DAY_ADDR), WireEnd(FALSE, res)>>
    IN  /\ IF res # 0
           THEN /\ bus' = addressing
                /\ UNCHANGED currentDate
           ELSE /\ bus' = addressing \o <<WireRequest(4, avail)>> \o ReadEvents(rx, 1)
                /\ currentDate' = ReadDateLoop(currentDate, rx, 0)
        /\ ret' = VoidRet
        /\ serial' = ""
        /\ op' = "readDate"
        /\ call' = NoArgs
        /\ UNCHANGED <<confTime, currentTime, confDate, rtc>>

(* ---------------- RAM Address Mapper ----------------------------------- *)

\* A return value tested the way configureDate tests the status.
SaveReturnInverted(status) == BoolRet(status # 0)

\* if (Wire.endTransmission() == 0) return true; else return false;
SaveReturn(status) == BoolRet(status = 0)

\* bool saveInRTCRAM(byte initAddr, byte data)
saveInRTCRAM(initAddr, data, status) ==
    LET addr == ToByte(getSafeRamAddr(initAddr))
    IN  /\ bus' = <<WireBegin(CLOCK_ADDR), WireWrite(addr), WireWrite(data),
                    WireEnd(TRUE, status)>>
        /\ ret' = SaveReturn(status)
        /\ serial' = ""
        /\ op' = "saveInRTCRAM"
        /\ call' = [initAddr |-> initAddr, data |-> data]
        /\ UNCHANGED <<confTime, currentTime, confDate, currentDate, rtc>>

\* byte loadFromRTCRAM(byte initAddr).  With no byte available the function
\* flows off its end without a return statement: the caller receives whatever
\* the return register holds, here any byte `junk`.
loadFromRTCRAM(initAddr, res, avail, rx, junk) ==
    LET addr == ToByte(getSafeRamAddr(initAddr))
        addressing == <<WireBegin(CLOCK_ADDR), WireWrite(addr), WireEnd(FALSE, res),
                        WireRequest(1, avail)>>
    IN  /\ IF avail > 0
           THEN /\ bus' = addressing \o <<WireRead(rx)>>
                /\ ret' = ByteRet(rx)
           ELSE /\ bus' = addressing
                /\ ret' = ByteRet(junk)
        /\ serial' = ""
        /\ op' = "loadFromRTCRAM"
        /\ call' = [initAddr |-> initAddr, data |-> 0]
        /\ UNCHANGED <<confTime, currentTime, confDate, currentDate, rtc>>

(* ---------------- initial state and inputs ----------------------------- *)

\* static Time / static Date objects are zero-initialised.
ZeroTime == [disableOsc |-> FALSE, second |-> 0, minut |-> 0, hour |-> 0,
             is12Hour |-> FALSE, meridianIndicator |-> AM]

ZeroDate == [dow |-> 0, date |-> 0, month |-> 0, year |-> 0]

ZeroRegs == [r \in TimeRegs |-> 0]

\* Time values inside the documented ranges of the struct.
ValidTimes ==
    [disableOsc : BOOLEAN, second : 0 .. 59, minut : 0 .. 59, hour : 0 .. 23,
     is12Hour : {FALSE}, meridianIndicator : {NONE}]
    \cup
    [disableOsc : BOOLEAN, second : 0 .. 59, minut : 0 .. 59, hour : 1 .. 12,
     is12Hour : {TRUE}, meridianIndicator : {AM, PM}]

\* Date values inside the documented ranges of the struct.
ValidDates == [dow : MONDAY .. SUNDAY, date : 1 .. 31, month : 1 .. 12, year : 0 .. 99]

\* Byte values the other fields take while one field runs over every byte.
ProbeBytes == {0, 60, 255}

\* Time values with arbitrary bytes: one numeric field is any byte, the other
\* two are probes, under every combination of the flags.
AnyTimes ==
    LET T(S, M, H) == [disableOsc : BOOLEAN, second : S, minut : M, hour : H,
                       is12Hour : BOOLEAN, meridianIndicator : {AM, PM, NONE}]
    IN  T(Byte, ProbeBytes, ProbeBytes) \cup T(ProbeBytes, Byte, ProbeBytes)
            \cup T(ProbeBytes, ProbeBytes, Byte)

\* Date values with arbitrary bytes, built the same way.
AnyDates ==
    LET D(W, A, M, Y) == [dow : W, date : A, month : M, year : Y]
    IN  D(Byte, ProbeBytes, ProbeBytes, ProbeBytes)
            \cup D(ProbeBytes, Byte, ProbeBytes, ProbeBytes)
            \cup D(ProbeBytes, ProbeBytes, Byte, ProbeBytes)
            \cup D(ProbeBytes, ProbeBytes, ProbeBytes, Byte)

\* Data bytes on the RAM path: what a caller stores, what the peripheral
\* returns, and, as a sample of the arbitrary byte an absent return statement
\* leaves to the caller, what the return register may hold.
RamBytes == {0, 28}

\* Register contents written out of band: one register holds any byte.
RawContents ==
    {[ZeroRegs EXCEPT ![r] = b] : r \in TimeRegs, b \in Byte}

Init ==
    /\ op = "none"
    /\ call = NoArgs
    /\ confTime = ZeroTime
    /\ currentTime = ZeroTime
    /\ confDate = ZeroDate
    /\ currentDate = ZeroDate
    /\ rtc = ZeroRegs
    /\ bus = <<>>
    /\ ret = VoidRet
    /\ serial = ""

InitRaw ==
    /\ op = "none"
    /\ call = NoArgs
    /\ confTime = ZeroTime
    /\ currentTime = ZeroTime
    /\ confDate = ZeroDate
    /\ currentDate = ZeroDate
    /\ rtc \in RawContents
    /\ bus = <<>>
    /\ ret = VoidRet
    /\ serial = ""

\* The status of the last endTransmission of the last handler.
Acked == bus # <<>> /\ bus[Len(bus)].call = "endTransmission" /\ bus[Len(bus)].result = 0

(* ---------------- specifications --------------------------------------- *)

\* The RAM mapper: any sequence of saves and loads.
NextRam ==
    \/ \E initAddr \in Byte, data \in RamBytes, status \in Statuses :
           saveInRTCRAM(initAddr, data, status)
    \/ \E initAddr \in Byte, res \in Statuses, rx \in RamBytes :
           loadFromRTCRAM(initAddr, res, 1, rx, 0)
    \/ \E initAddr \in Byte, res \in Statuses, junk \in RamBytes :
           loadFromRTCRAM(initAddr, res, 0, 0, junk)

SpecRam == Init /\ [][NextRam]_vars

\* The write path: one configuration call with arbitrary bytes in the struct.
NextWrite ==
    \/ op = "none" /\ \E t \in AnyTimes, status \in Statuses : configureTime(t, status)
    \/ op = "none" /\ \E d \in AnyDates, status \in Statuses : configureDate(d, status)

SpecWrite == Init /\ [][NextWrite]_vars

\* setup() then loop() for the time: a valid time is configured, and read
\* back once it has been acknowledged.
NextTime ==
    \/ op = "none" /\ \E t \in ValidTimes, status \in Statuses : configureTime(t, status)
    \/ op = "configureTime" /\ Acked /\ \E res \in Statuses, avail \in 0 .. 3 :
           readTime(res, avail)

SpecTime == Init /\ [][NextTime]_vars

\* setup() then loop() for the date.
NextDate ==
    \/ op = "none" /\ \E d \in ValidDates, status \in Statuses : configureDate(d, status)
    \/ op = "configureDate" /\ Acked /\ \E res \in Statuses, avail \in 0 .. 4 :
           readDate(res, avail)

SpecDate == Init /\ [][NextDate]_vars

\* loop() over a peripheral whose registers were written out of band.
NextRaw ==
    \/ \E res \in Statuses, avail \in 0 .. 3 : readTime(res, avail)
    \/ \E res \in Statuses, avail \in 0 .. 4 : readDate(res, avail)

SpecRaw == InitRaw /\ [][NextRaw]_vars

(* ---------------- properties ------------------------------------------- *)

RamOp == op \in {"saveInRTCRAM", "loadFromRTCRAM"}

\* The register address a RAM operation sent: its first written byte.
SentAddress == bus[2].arg

RamWindowSize == RTC_RAM_UPPER - RTC_RAM_LOWER + 1

Min2(a, b) == IF a < b THEN a ELSE b

Max2(a, b) == IF a > b THEN a ELSE b

Saturate(v, lo, hi) == Min2(Max2(v, lo), hi)

BcdOf(n) == 16 * (n \div 10) + (n % 10)

\* C1: every RAM operation addresses a register inside the storage window
\* [0x08, 0x3F], whatever offset was requested.
C1_AddressInWindow ==
    RamOp => SentAddress \in RTC_RAM_LOWER .. RTC_RAM_UPPER

\* C2: the address sent is windowStart + (requested mod 56).
C2_MapOffsetMod56 ==
    RamOp => SentAddress = RTC_RAM_LOWER + (call.initAddr % RamWindowSize)

\* C3: a valid time, in 24-hour or in 12-hour mode, that configureTime wrote
\* and readTime read back whole and unchanged is decoded equal to the
\* original in every field.
C3_TimeRoundTrip ==
    (/\ op = "readTime"
     /\ Len(bus) = 7
     /\ \A k \in 1 .. 3 : bus[4 + k].result = rtc[SEC_ADDR + k - 1]
     /\ confTime \in ValidTimes)
        => currentTime = confTime

C3_Witness ==
    /\ op = "readTime"
    /\ Len(bus) = 7
    /\ confTime.is12Hour /\ confTime.meridianIndicator = PM /\ confTime.hour = 12
    /\ confTime.disableOsc /\ confTime.second = 59
    /\ currentTime = confTime

\* C4: a valid date that configureDate wrote and readDate read back whole,
\* unchanged and in the same order is decoded equal to the original in every
\* field.
C4_DateRoundTrip ==
    (/\ op = "readDate"
     /\ Len(bus) = 8
     /\ \A k \in 1 .. 4 : bus[4 + k].result = rtc[DAY_ADDR + k - 1]
     /\ confDate \in ValidDates)
        => currentDate = confDate

C4_Witness ==
    /\ op = "readDate"
    /\ Len(bus) = 8
    /\ confDate = [dow |-> SUNDAY, date |-> 31, month |-> 12, year |-> 99]
    /\ currentDate = confDate

Hour11PM == confTime.hour = 11 /\ confTime.is12Hour /\ confTime.meridianIndicator = PM

Hour23 == confTime.hour = 23 /\ ~confTime.is12Hour

\* C5 as stated: hour 11 PM in 12-hour mode is written as 0b01100001 (97),
\* hour 23 in 24-hour mode as 0b00100011 (35).
C5_AsStated ==
    op = "configureTime" =>
        /\ Hour11PM => bus[5].arg = 97
        /\ Hour23 => bus[5].arg = 35

\* C5 amended: hour 11 PM in 12-hour mode is written as 0b01110001 (113:
\* bit 6, bit 5, tens digit 1 in bit 4, ones digit 1), hour 23 in 24-hour
\* mode as 0b00100011 (35).
C5_HourByteVectors ==
    op = "configureTime" =>
        /\ Hour11PM => bus[5].arg = 113
        /\ Hour23 => bus[5].arg = 35

C5_Witness ==
    op = "configureTime" /\ Hour11PM /\ bus[5].arg = 113

\* C6: whatever bytes the struct holds, the numeric bits of every byte that
\* configureTime and configureDate write are the packed BCD of the field
\* saturated to its range, so that no value above 99 is ever encoded.
C6_WriteSaturates ==
    /\ op = "configureTime" =>
        /\ bus[3].arg % 128 = BcdOf(Saturate(confTime.second, 0, 59))
        /\ bus[4].arg = BcdOf(Saturate(confTime.minut, 0, 59))
        /\ confTime.is12Hour => bus[5].arg % 32 = BcdOf(Saturate(confTime.hour, 1, 12))
        /\ ~confTime.is12Hour => bus[5].arg % 64 = BcdOf(Saturate(confTime.hour, 0, 23))
    /\ op = "configureDate" =>
        /\ bus[3].arg = BcdOf(Saturate(confDate.dow, 1, 7))
        /\ bus[4].arg = BcdOf(Saturate(confDate.date, 1, 31))
        /\ bus[5].arg = BcdOf(Saturate(confDate.month, 1, 12))
        /\ bus[6].arg = BcdOf(Saturate(confDate.year, 0, 99))

C6_Witness ==
    /\ op = "configureTime"
    /\ confTime.second = 65
    /\ ~confTime.disableOsc
    /\ bus[3].arg = 89

\* C7: whatever byte readDate receives for the day-of-week register, the
\* decoded dayOfWeek is in 1..7: the low three bits when they are not zero,
\* MONDAY when they are.
C7_DowAlwaysValid ==
    (op = "readDate" /\ Len(bus) >= 5) =>
        LET low == bus[5].result % 8
        IN  /\ currentDate.dow \in MONDAY .. SUNDAY
            /\ low # 0 => currentDate.dow = low
            /\ low = 0 => currentDate.dow = MONDAY

C7_Witness ==
    /\ op = "readDate"
    /\ Len(bus) >= 5
    /\ bus[5].result = 248
    /\ currentDate.dow = MONDAY

\* C8: when the transport yields no byte, loadFromRTCRAM returns an explicit
\* TransportFailure, never a byte.
C8_LoadFailsExplicitly ==
    (op = "loadFromRTCRAM" /\ bus[4].result = 0) => ret.kind = "TransportFailure"

\* C9: saveInRTCRAM makes exactly one write transaction (begin, mapped
\* address, data byte, end) and returns true exactly when its status is 0.
C9_SaveOneTransaction ==
    op = "saveInRTCRAM" =>
        /\ Len(bus) = 4
        /\ bus[1] = WireBegin(CLOCK_ADDR)
        /\ bus[2] = WireWrite(getSafeRamAddr(call.initAddr))
        /\ bus[3] = WireWrite(call.data)
        /\ bus[4].call = "endTransmission"
        /\ ret.kind = "bool"
        /\ (ret.val = 1) <=> (bus[4].result = 0)

C9_Witness ==
    op = "saveInRTCRAM" /\ bus[4].result # 0 /\ ret = BoolRet(FALSE)

\* C10: configureTime and configureDate return a boolean status that is
\* true exactly when the end-of-transaction status is 0.
C10_ConfigureReportsStatus ==
    op \in {"configureTime", "configureDate"} =>
        /\ ret.kind = "bool"
        /\ (ret.val = 1) <=> (bus[Len(bus)].result = 0)

====
